---- MODULE Spec2Model ----
(***************************************************************************)
(* Streaming voice-activity segmentation (silero_vad.c, library copy).     *)
(* The monolithic copy of the same engine is the record `mono`, driven     *)
(* side by side with the same calls.  The WAV reader (wav.c) is the        *)
(* record `wav`: a file, the wav_reader_t it is opened into, and the       *)
(* FILE handle.                                                            *)
(*                                                                         *)
(* The engine struct vad_iterator_t is the record `vad`.  The functions    *)
(* vad_iterator_init, vad_iterator_reset_states, vad_predict and           *)
(* vad_iterator_process are operators on that record; the actions apply    *)
(* them.  The ONNX session is the external classifier `Infer`: a           *)
(* deterministic function of the assembled input and the recurrent state.  *)
(*                                                                         *)
(* Units: probabilities and the threshold are in hundredths (0.5f is 50,   *)
(* 0.15f is 15); max_speech_s is given in milliseconds, or Infinity.       *)
(* Sample amplitudes are abstracted to the classes 0..2 (0 is the value    *)
(* memset/calloc writes).  All values stay far below 2^31, so the int /    *)
(* unsigned int conversions of the source are the identity here.           *)
(***************************************************************************)
EXTENDS Integers, Sequences, FiniteSets, TLC

VARIABLES
    init_args,    \* the arguments vad_iterator_init was called with
    vad,          \* the engine (vad_iterator_t) driven by the caller
    fresh,        \* a second engine, initialised alike, that only ever runs the current call
    alt,          \* a third engine, initialised with another speech_pad_ms, that runs
                  \* the current call alongside
    mono,         \* the engine of the monolithic copy, given the same arguments and calls
    mono_pc,      \* the program of the monolithic copy: "live", or lost in a call
                  \* ("crashed", "hung")
    pc,           \* caller position: "idle", "loop" (inside process), "returned";
                  \* "init_failed" (vad_iterator_init returned false), "exited"
                  \* (the process was ended by exit(EXIT_FAILURE))
    input_wav_null,  \* argument of the current process() call: input_wav == nullptr
    j,            \* loop index of vad_iterator_process
    audio_length_samples,   \* argument of the current process() call
    probs,        \* history: probabilities returned by the classifier in this call
    fed,          \* history: amplitude class of each window stepped in this call
    rules,        \* history: the `if` block each step of this call ran (1..4)
    origin,       \* history: for each segment of vad.speeches, who pushed it
    last_op,      \* history: the last operation the caller ran
    wav           \* the WAV reader: the file given to wav_reader_open, the reader
                  \* struct, the FILE handle and what the call returned

vars == <<init_args, vad, fresh, alt, mono, mono_pc, pc, input_wav_null, j, audio_length_samples, probs, fed,
          rules, origin, last_op, wav>>

-----------------------------------------------------------------------------
(* Bounds of the model *)

\* largest number of whole windows in an audio buffer
MaxWindows == 5

\* number of whole windows in a long audio buffer
MaxLongWindows == 18

\* largest number of whole windows in the buffers given to the engines of DeepArgs
MaxDeepWindows == 6

-----------------------------------------------------------------------------
(* Program constants *)

InitialCapacity == 8

StateChannels == 2
StateBatch == 1
StateWidth == 128

MinSilenceMsAtMaxSpeech == 98

\* 0.15f, in hundredths
Hysteresis == 15

\* float values of max_speech_s and max_speech_samples: INFINITY or a finite number
Infinity == [inf |-> TRUE, val |-> 0]
Finite(x) == [inf |-> FALSE, val |-> x]

NoSpeech == [start |-> -1, end |-> -1]

\* lengths of the trailing partial window of an audio buffer: none, one sample
Tails == {0, 1}

\* amplitude classes of a sample
Samples == 0..2

\* the probabilities the classifier can return (hundredths), for the
\* threshold 0.5: just below threshold - 0.15, exactly threshold - 0.15,
\* exactly threshold
ProbLevels == <<34, 35, 50>>

\* constructor arguments: <<sample_rate, window_frame_size_ms, threshold,
\*   min_silence_ms, speech_pad_ms, min_speech_ms, max_speech_s (in ms, or Infinity)>>
InitArgs ==
    { <<16000, 0, 50, 100, 0, 0, Infinity>>,
      <<16000, 100, 50, 100, 0, 0, Infinity>>,
      <<16000, 1, 50, 0, 0, 0, Infinity>>,
      <<16000, 100, 50, 100, 30, 250, Infinity>>,
      <<16000, 100, 50, 300, 0, 250, Finite(500)>>,
      <<16000, 100, 50, 100, 0, 250, Finite(300)>>,
      <<8000, 100, 50, 0, 30, 0, Finite(400)>>,
      <<8000, 50, 50, 200, 0, 100, Finite(200)>> }

\* constructor arguments of the engines that are also given long buffers
LongArgs == { <<16000, 1, 50, 0, 0, 0, Infinity>> }

\* constructor arguments of the engines that are given buffers of up to
\* MaxDeepWindows windows: min_speech_samples is two windows and
\* max_speech_samples four
DeepArgs == { <<8000, 100, 50, 0, 0, 200, Finite(500)>> }

\* the same constructor arguments with another speech_pad_ms: the demo's 30 ms
\* for 0, and 0 otherwise
OtherPadArgs(a) == [a EXCEPT ![5] = IF a[5] = 0 THEN 30 ELSE 0]

\* constructor arguments with a sample rate the engine does not support
UnsupportedArgs == { <<44100, 100, 50, 100, 0, 0, Infinity>> }

-----------------------------------------------------------------------------
(* timestamp_vector_t.  `data` holds the live entries data[0..size-1]; the   *)
(* slots past `size` are never read by the program and are not modelled.     *)

vec_init == [data |-> <<>>, size |-> 0, capacity |-> 0]

\* mutant: the grown storage is a new block and the old entries are not
\* copied into it
vec_push_GrowsWithoutCopy(vec, ts) ==
    LET new_cap == IF vec.capacity = 0 THEN InitialCapacity ELSE vec.capacity * 2
    IN  [data     |-> IF vec.size >= vec.capacity
                      THEN Append([i \in 1..vec.size |-> [start |-> 0, end |-> 0]], ts)
                      ELSE Append(SubSeq(vec.data, 1, vec.size), ts),
         size     |-> vec.size + 1,
         capacity |-> IF vec.size >= vec.capacity THEN new_cap ELSE vec.capacity]

vec_push(vec, ts) ==
    LET new_cap == IF vec.capacity = 0 THEN InitialCapacity ELSE vec.capacity * 2
    IN  [data     |-> Append(SubSeq(vec.data, 1, vec.size), ts),
         size     |-> vec.size + 1,
         capacity |-> IF vec.size >= vec.capacity THEN new_cap ELSE vec.capacity]

\* realloc is called: the list is full
vec_push_reallocs(vec) == vec.size >= vec.capacity

\* where the program is after vec_push when realloc fails or succeeds: on
\* failure it prints "OOM in vec_push" and calls exit(EXIT_FAILURE)
vec_push_outcome(realloc_ok, here) == IF realloc_ok THEN here ELSE "exited"

vec_clear(vec) == [data |-> <<>>, size |-> 0, capacity |-> vec.capacity]

\* the segment list a caller reads: speeches.data[0 .. speeches.size-1]
Segments(v) == SubSeq(v.speeches.data, 1, v.speeches.size)

Zeros(n) == [i \in 1..n |-> 0]

-----------------------------------------------------------------------------
(* check_status *)

\* mutant: the status is ignored and the caller goes on
check_status_Ignored(status_ok, here) == here

\* where the program is after check_status: on an error status it prints the
\* message and calls exit(EXIT_FAILURE)
check_status(status_ok, here) == IF status_ok THEN here ELSE "exited"

-----------------------------------------------------------------------------
(* vad_iterator_init *)

is_16k_model(model_16k) == model_16k

\* the struct after memset(vad, 0, sizeof(*vad))
ZeroedVad ==
    [ sample_rate |-> 0, sr_per_ms |-> 0, window_size_samples |-> 0,
      effective_window_size |-> 0, context_samples |-> 0, size_state |-> 0,
      threshold |-> 0, min_silence_samples |-> 0,
      min_silence_samples_at_max_speech |-> 0, min_speech_samples |-> 0,
      max_speech_samples |-> Finite(0), speech_pad_samples |-> 0,
      triggered |-> FALSE, temp_end |-> 0, current_sample |-> 0,
      prev_end |-> 0, next_start |-> 0,
      current_speech |-> [start |-> 0, end |-> 0],
      speeches |-> vec_init,
      context |-> <<>>, state |-> <<>> ]

\* float arithmetic of max_speech_samples; INFINITY absorbs the subtraction
MaxSpeechSamples(sample_rate, max_speech_ms, window, pad) ==
    IF max_speech_ms.inf
    THEN Infinity
    ELSE Finite((sample_rate \div 1000) * max_speech_ms.val - window - 2 * pad)

\* mutant: the context is 64 samples at every sample rate
ContextSamples_Always64(sample_rate) == 64

\* sample_rate == 16'000 ? 64 : 32
ContextSamples(sample_rate) == IF sample_rate = 16000 THEN 64 ELSE 32

vad_iterator_init(model_16k, a) ==
    LET sample_rate == a[1]
        window_frame_size_ms == a[2]
        threshold == a[3]
        min_silence_ms == a[4]
        speech_pad_ms == a[5]
        min_speech_ms == a[6]
        max_speech_s == a[7]
        sr_per_ms == sample_rate \div 1000
        window == window_frame_size_ms * sr_per_ms
        context_samples == ContextSamples(sample_rate)
        size_state == StateChannels * StateBatch * StateWidth
    IN  IF is_16k_model(model_16k) /\ sample_rate # 16000
        THEN [ok |-> FALSE, vad |-> ZeroedVad]
        ELSE IF ~is_16k_model(model_16k) /\ sample_rate # 16000 /\ sample_rate # 8000
        THEN [ok |-> FALSE, vad |-> ZeroedVad]
        ELSE [ok |-> TRUE,
              vad |->
                [ sample_rate |-> sample_rate,
                  sr_per_ms |-> sr_per_ms,
                  window_size_samples |-> window,
                  effective_window_size |-> window + context_samples,
                  context_samples |-> context_samples,
                  size_state |-> size_state,
                  threshold |-> threshold,
                  min_silence_samples |-> sr_per_ms * min_silence_ms,
                  min_silence_samples_at_max_speech |-> sr_per_ms * MinSilenceMsAtMaxSpeech,
                  min_speech_samples |-> sr_per_ms * min_speech_ms,
                  max_speech_samples |->
                      MaxSpeechSamples(sample_rate, max_speech_s, window,
                                       sr_per_ms * speech_pad_ms),
                  speech_pad_samples |-> sr_per_ms * speech_pad_ms,
                  triggered |-> FALSE, temp_end |-> 0, current_sample |-> 0,
                  prev_end |-> 0, next_start |-> 0,
                  current_speech |-> NoSpeech,
                  speeches |-> vec_init,
                  context |-> Zeros(context_samples),
                  state |-> Zeros(size_state) ]]

\* what the caller of vad_iterator_init is told: the bool result is false
InitReports(a) == ~vad_iterator_init(FALSE, a).ok

-----------------------------------------------------------------------------
(* vad_iterator_reset_states *)

\* mutant: the memset of the context buffer is missing
reset_states_KeepsContext(v) ==
    [v EXCEPT !.state = Zeros(v.size_state),
              !.triggered = FALSE,
              !.temp_end = 0,
              !.current_sample = 0,
              !.prev_end = 0,
              !.next_start = 0,
              !.speeches = vec_clear(v.speeches),
              !.current_speech = NoSpeech]

\* mutant: the reset also clears a derived configuration field
reset_states_ClearsMinSpeech(v) ==
    [v EXCEPT !.state = Zeros(v.size_state),
              !.context = Zeros(v.context_samples),
              !.triggered = FALSE,
              !.temp_end = 0,
              !.current_sample = 0,
              !.prev_end = 0,
              !.next_start = 0,
              !.speeches = vec_clear(v.speeches),
              !.current_speech = NoSpeech,
              !.min_speech_samples = 0]

vad_iterator_reset_states(v) ==
    [v EXCEPT !.state = Zeros(v.size_state),
              !.context = Zeros(v.context_samples),
              !.triggered = FALSE,
              !.temp_end = 0,
              !.current_sample = 0,
              !.prev_end = 0,
              !.next_start = 0,
              !.speeches = vec_clear(v.speeches),
              !.current_speech = NoSpeech]

-----------------------------------------------------------------------------
(* The classifier (the ONNX session run by vad_predict): probability and   *)
(* next recurrent state, a deterministic function of the assembled input   *)
(* and the recurrent state.  It reads both ends of the input and of the    *)
(* state, and for every context and state each probability level is the    *)
(* answer to some window.  The next state is the state shifted by one      *)
(* element, with an element computed from the input at its end.            *)

Infer(input, st) ==
    LET last == input[Len(input)]
        k == (last + input[1] + st[1] + st[Len(st)]) % Len(ProbLevels)
    IN  [prob   |-> ProbLevels[k + 1],
         stateN |-> Append(Tail(st), (st[1] + last) % 2)]

-----------------------------------------------------------------------------
(* vad_predict *)

\* (int)x > f for a float f
GreaterThanFloat(x, f) == ~f.inf /\ x > f.val

\* the two memcpy into input_buffer: the context, then the window
AssembleInput(v, data_chunk) == v.context \o data_chunk

\* mutant: the byte count is passed without sizeof(float), so only the first
\* quarter of the floats is copied
CopyState_Bytes(v, stateN) ==
    SubSeq(stateN, 1, v.size_state \div 4)
        \o SubSeq(v.state, v.size_state \div 4 + 1, v.size_state)

\* memcpy(vad->state, stateN_data, size_state * sizeof(float))
CopyState(v, stateN) == SubSeq(stateN, 1, v.size_state)

\* mutant: the copy starts at the head of the input buffer
RefreshContext_FromHead(v, input_buffer) ==
    [v EXCEPT !.context = SubSeq(input_buffer, 1, v.context_samples)]

\* memcpy(context, input_buffer + (effective_window_size - context_samples), ...)
RefreshContext(v, input_buffer) ==
    [v EXCEPT !.context =
        SubSeq(input_buffer,
               v.effective_window_size - v.context_samples + 1,
               v.effective_window_size)]

\* mutant: the confident-silence test comes before the duration-cap test
Branch_SilenceBeforeCap(v, speech_prob) ==
    IF speech_prob >= v.threshold THEN 1
    ELSE IF speech_prob < v.threshold - Hysteresis THEN 4
    ELSE IF v.triggered
            /\ GreaterThanFloat(v.current_sample - v.current_speech.start,
                                v.max_speech_samples) THEN 2
    ELSE 3

\* which of the four `if` blocks of the logic a step runs (0: none)
Branch(v, speech_prob) ==
    IF speech_prob >= v.threshold THEN 1
    ELSE IF v.triggered
            /\ GreaterThanFloat(v.current_sample - v.current_speech.start,
                                v.max_speech_samples) THEN 2
    ELSE IF speech_prob >= v.threshold - Hysteresis /\ speech_prob < v.threshold THEN 3
    ELSE IF speech_prob < v.threshold - Hysteresis THEN 4
    ELSE 0

\* mutant: the window size is not subtracted
WindowStart_Cursor(v) == v.current_sample

\* mutant: the start is moved back by the padding
WindowStart_Padded(v) == v.current_sample - v.window_size_samples - v.speech_pad_samples

\* current_sample - window_size_samples: the first sample of the window of this step
WindowStart(v) == v.current_sample - v.window_size_samples

\* mutant: a speech window restarts the candidate even when one is open
SpeechBranch_RestartsCandidate(v) ==
    LET window_start == WindowStart(v)
        v1 == IF v.temp_end # 0
              THEN [v EXCEPT !.temp_end = 0,
                             !.next_start = IF v.next_start < v.prev_end
                                            THEN window_start ELSE v.next_start]
              ELSE v
    IN  [v1 EXCEPT !.triggered = TRUE, !.current_speech.start = window_start]

\* speech_prob >= threshold
SpeechBranch(v) ==
    LET window_start == WindowStart(v)
        v1 == IF v.temp_end # 0
              THEN [v EXCEPT !.temp_end = 0,
                             !.next_start = IF v.next_start < v.prev_end
                                            THEN window_start ELSE v.next_start]
              ELSE v
    IN  IF ~v1.triggered
        THEN [v1 EXCEPT !.triggered = TRUE, !.current_speech.start = window_start]
        ELSE v1

\* mutant: >= for >
HasPrevEnd_OrZero(v) == v.prev_end >= 0

\* prev_end > 0: a silence long enough to split at was seen
HasPrevEnd(v) == v.prev_end > 0

\* mutant: the operands are swapped
StopsTriggering_Swapped(v) == v.prev_end < v.next_start

\* next_start < prev_end: no speech was seen after the silence at prev_end
StopsTriggering(v) == v.next_start < v.prev_end

\* mutant: the candidate is re-opened at prev_end
MaxSpeechBranch_ReopensAtPrevEnd(v) ==
    IF HasPrevEnd(v)
    THEN LET pushed == vec_push(v.speeches, [v.current_speech EXCEPT !.end = v.prev_end])
         IN  [v EXCEPT !.speeches = pushed,
                       !.current_speech =
                           IF StopsTriggering(v)
                           THEN NoSpeech
                           ELSE [start |-> v.prev_end, end |-> -1],
                       !.triggered = IF StopsTriggering(v) THEN FALSE ELSE v.triggered,
                       !.prev_end = 0,
                       !.next_start = 0,
                       !.temp_end = 0]
    ELSE LET pushed == vec_push(v.speeches, [v.current_speech EXCEPT !.end = v.current_sample])
         IN  [v EXCEPT !.speeches = pushed,
                       !.current_speech = NoSpeech,
                       !.prev_end = 0,
                       !.next_start = 0,
                       !.temp_end = 0,
                       !.triggered = FALSE]

\* mutant: without a prev_end the segment is closed at the start of the window
MaxSpeechBranch_ClosesAtWindowStart(v) ==
    IF HasPrevEnd(v)
    THEN LET pushed == vec_push(v.speeches, [v.current_speech EXCEPT !.end = v.prev_end])
         IN  [v EXCEPT !.speeches = pushed,
                       !.current_speech =
                           IF StopsTriggering(v)
                           THEN NoSpeech
                           ELSE [start |-> v.next_start, end |-> -1],
                       !.triggered = IF StopsTriggering(v) THEN FALSE ELSE v.triggered,
                       !.prev_end = 0,
                       !.next_start = 0,
                       !.temp_end = 0]
    ELSE LET pushed == vec_push(v.speeches,
                                [v.current_speech EXCEPT !.end = WindowStart(v)])
         IN  [v EXCEPT !.speeches = pushed,
                       !.current_speech = NoSpeech,
                       !.prev_end = 0,
                       !.next_start = 0,
                       !.temp_end = 0,
                       !.triggered = FALSE]

\* mutant: triggered is not cleared when no speech followed prev_end
MaxSpeechBranch_StaysTriggered(v) ==
    IF HasPrevEnd(v)
    THEN LET pushed == vec_push(v.speeches, [v.current_speech EXCEPT !.end = v.prev_end])
         IN  [v EXCEPT !.speeches = pushed,
                       !.current_speech =
                           IF StopsTriggering(v)
                           THEN NoSpeech
                           ELSE [start |-> v.next_start, end |-> -1],
                       !.prev_end = 0,
                       !.next_start = 0,
                       !.temp_end = 0]
    ELSE LET pushed == vec_push(v.speeches, [v.current_speech EXCEPT !.end = v.current_sample])
         IN  [v EXCEPT !.speeches = pushed,
                       !.current_speech = NoSpeech,
                       !.prev_end = 0,
                       !.next_start = 0,
                       !.temp_end = 0,
                       !.triggered = FALSE]

\* triggered and the candidate is longer than max_speech_samples
MaxSpeechBranch(v) ==
    IF HasPrevEnd(v)
    THEN LET pushed == vec_push(v.speeches, [v.current_speech EXCEPT !.end = v.prev_end])
         IN  [v EXCEPT !.speeches = pushed,
                       !.current_speech =
                           IF StopsTriggering(v)
                           THEN NoSpeech
                           ELSE [start |-> v.next_start, end |-> -1],
                       !.triggered = IF StopsTriggering(v) THEN FALSE ELSE v.triggered,
                       !.prev_end = 0,
                       !.next_start = 0,
                       !.temp_end = 0]
    ELSE LET pushed == vec_push(v.speeches, [v.current_speech EXCEPT !.end = v.current_sample])
         IN  [v EXCEPT !.speeches = pushed,
                       !.current_speech = NoSpeech,
                       !.prev_end = 0,
                       !.next_start = 0,
                       !.temp_end = 0,
                       !.triggered = FALSE]

\* mutant: the ambiguous zone cancels a pending close
AmbiguousBranch_CancelsClose(v) == [v EXCEPT !.temp_end = 0]

\* threshold - 0.15 <= speech_prob < threshold: nothing but the context refresh
AmbiguousBranch(v) == v

\* mutant: temp_end is set on every confident-silence window
SilenceWhileTriggered_MovesTempEnd(v) ==
    LET v1 == [v EXCEPT !.temp_end = v.current_sample]
        v2 == IF v1.current_sample - v1.temp_end > v1.min_silence_samples_at_max_speech
              THEN [v1 EXCEPT !.prev_end = v1.temp_end] ELSE v1
    IN  IF v2.current_sample - v2.temp_end >= v2.min_silence_samples
        THEN LET v3 == [v2 EXCEPT !.current_speech.end = v2.temp_end]
             IN  IF v3.current_speech.end - v3.current_speech.start > v3.min_speech_samples
                 THEN [v3 EXCEPT !.speeches = vec_push(v3.speeches, v3.current_speech),
                                 !.current_speech = NoSpeech,
                                 !.prev_end = 0,
                                 !.next_start = 0,
                                 !.temp_end = 0,
                                 !.triggered = FALSE]
                 ELSE v3
        ELSE v2

\* mutant: >= for > in the min_speech_samples test
SilenceWhileTriggered_MinSpeechInclusive(v) ==
    LET v1 == IF v.temp_end = 0 THEN [v EXCEPT !.temp_end = v.current_sample] ELSE v
        v2 == IF v1.current_sample - v1.temp_end > v1.min_silence_samples_at_max_speech
              THEN [v1 EXCEPT !.prev_end = v1.temp_end] ELSE v1
    IN  IF v2.current_sample - v2.temp_end >= v2.min_silence_samples
        THEN LET v3 == [v2 EXCEPT !.current_speech.end = v2.temp_end]
             IN  IF v3.current_speech.end - v3.current_speech.start >= v3.min_speech_samples
                 THEN [v3 EXCEPT !.speeches = vec_push(v3.speeches, v3.current_speech),
                                 !.current_speech = NoSpeech,
                                 !.prev_end = 0,
                                 !.next_start = 0,
                                 !.temp_end = 0,
                                 !.triggered = FALSE]
                 ELSE v3
        ELSE v2

\* mutant: the candidate is pushed without the min_speech_samples test
SilenceWhileTriggered_NoMinSpeechTest(v) ==
    LET v1 == IF v.temp_end = 0 THEN [v EXCEPT !.temp_end = v.current_sample] ELSE v
        v2 == IF v1.current_sample - v1.temp_end > v1.min_silence_samples_at_max_speech
              THEN [v1 EXCEPT !.prev_end = v1.temp_end] ELSE v1
    IN  IF v2.current_sample - v2.temp_end >= v2.min_silence_samples
        THEN LET v3 == [v2 EXCEPT !.current_speech.end = v2.temp_end]
             IN  [v3 EXCEPT !.speeches = vec_push(v3.speeches, v3.current_speech),
                            !.current_speech = NoSpeech,
                            !.prev_end = 0,
                            !.next_start = 0,
                            !.temp_end = 0,
                            !.triggered = FALSE]
        ELSE v2

\* mutant: a candidate not longer than min_speech_samples is discarded
SilenceWhileTriggered_DiscardsShort(v) ==
    LET v1 == IF v.temp_end = 0 THEN [v EXCEPT !.temp_end = v.current_sample] ELSE v
        v2 == IF v1.current_sample - v1.temp_end > v1.min_silence_samples_at_max_speech
              THEN [v1 EXCEPT !.prev_end = v1.temp_end] ELSE v1
    IN  IF v2.current_sample - v2.temp_end >= v2.min_silence_samples
        THEN LET v3 == [v2 EXCEPT !.current_speech.end = v2.temp_end]
                 pushed == IF v3.current_speech.end - v3.current_speech.start
                                > v3.min_speech_samples
                           THEN vec_push(v3.speeches, v3.current_speech)
                           ELSE v3.speeches
             IN  [v3 EXCEPT !.speeches = pushed,
                            !.current_speech = NoSpeech,
                            !.prev_end = 0,
                            !.next_start = 0,
                            !.temp_end = 0,
                            !.triggered = FALSE]
        ELSE v2

\* speech_prob < threshold - 0.15, inside `if (vad->triggered)`
SilenceWhileTriggered(v) ==
    LET v1 == IF v.temp_end = 0 THEN [v EXCEPT !.temp_end = v.current_sample] ELSE v
        v2 == IF v1.current_sample - v1.temp_end > v1.min_silence_samples_at_max_speech
              THEN [v1 EXCEPT !.prev_end = v1.temp_end] ELSE v1
    IN  IF v2.current_sample - v2.temp_end >= v2.min_silence_samples
        THEN LET v3 == [v2 EXCEPT !.current_speech.end = v2.temp_end]
             IN  IF v3.current_speech.end - v3.current_speech.start > v3.min_speech_samples
                 THEN [v3 EXCEPT !.speeches = vec_push(v3.speeches, v3.current_speech),
                                 !.current_speech = NoSpeech,
                                 !.prev_end = 0,
                                 !.next_start = 0,
                                 !.temp_end = 0,
                                 !.triggered = FALSE]
                 ELSE v3
        ELSE v2

\* mutant: the `if (vad->triggered)` guard is missing
SilenceBranch_Unguarded(v) == SilenceWhileTriggered(v)

\* speech_prob < threshold - 0.15
SilenceBranch(v) == IF v.triggered THEN SilenceWhileTriggered(v) ELSE v

\* the engine after one step on data_chunk, and the probability it saw
vad_predict(v, data_chunk) ==
    LET input_buffer == AssembleInput(v, data_chunk)
        out == Infer(input_buffer, v.state)
        speech_prob == out.prob
        v0 == [v EXCEPT !.state = CopyState(v, out.stateN),
                        !.current_sample = v.current_sample + v.window_size_samples]
        b == Branch(v0, speech_prob)
    IN  IF b = 1 THEN RefreshContext(SpeechBranch(v0), input_buffer)
        ELSE IF b = 2 THEN RefreshContext(MaxSpeechBranch(v0), input_buffer)
        ELSE IF b = 3 THEN RefreshContext(AmbiguousBranch(v0), input_buffer)
        ELSE IF b = 4 THEN RefreshContext(SilenceBranch(v0), input_buffer)
        ELSE v0

\* what the classifier answers, and the block that runs, on a step from v
StepProb(v, data_chunk) == Infer(AssembleInput(v, data_chunk), v.state).prob

StepBranch(v, data_chunk) ==
    Branch([v EXCEPT !.current_sample = v.current_sample + v.window_size_samples],
           StepProb(v, data_chunk))

-----------------------------------------------------------------------------
(* vad_iterator_process *)

\* mutant: the zero window size is not tested
ProcessReturnsAtEntry_NullOnly(v, input_null) == input_null

\* the early returns at entry: a null buffer, a zero window size
ProcessReturnsAtEntry(v, input_null) ==
    input_null \/ v.window_size_samples = 0

\* mutant: the reset runs before the entry tests
ProcessEntryReturn_ResetsFirst(v) == vad_iterator_reset_states(v)

\* the engine after an entry return: the two `return;` come before the reset
\* and write nothing
ProcessEntryReturn(v) == v

\* what the caller of vad_iterator_process is told by an entry return: the
\* function is void and the two returns print nothing
ProcessReports(v, input_null) == FALSE

\* mutant: the break on a partial window is missing
LoopContinues_NoBreak(v, jj, len) == jj < len

\* the loop condition and the break on a partial window
LoopContinues(v, jj, len) ==
    jj < len /\ ~(jj + v.window_size_samples > len)

\* mutant: the candidate is closed at the cursor
FlushOpen_AtCursor(v, len) ==
    IF v.current_speech.start >= 0
    THEN [v EXCEPT !.speeches = vec_push(v.speeches,
                                         [v.current_speech EXCEPT !.end = v.current_sample]),
                   !.current_speech = NoSpeech,
                   !.prev_end = 0,
                   !.next_start = 0,
                   !.temp_end = 0,
                   !.triggered = FALSE]
    ELSE v

\* the code after the loop: the end-of-stream flush
FlushOpen(v, len) ==
    IF v.current_speech.start >= 0
    THEN [v EXCEPT !.speeches = vec_push(v.speeches,
                                         [v.current_speech EXCEPT !.end = len]),
                   !.current_speech = NoSpeech,
                   !.prev_end = 0,
                   !.next_start = 0,
                   !.temp_end = 0,
                   !.triggered = FALSE]
    ELSE v

\* a window whose samples all have amplitude class c
Window(v, c) == [i \in 1..v.window_size_samples |-> c]

\* the audio lengths a call is given
AudioLengths(v) ==
    { n * v.window_size_samples + r :
        n \in 0..MaxWindows,
        r \in { t \in Tails : t = 0 \/ v.window_size_samples = 0
                                          \/ t < v.window_size_samples } }

-----------------------------------------------------------------------------
(* The monolithic copy: timestamp vector, vad_iterator_init,                 *)
(* vad_iterator_reset_states, vad_predict and vad_iterator_process of the    *)
(* single-file program.  The engine record has the fields of the library     *)
(* copy's.                                                                   *)

mono_vec_push(vec, ts) ==
    IF vec.size >= vec.capacity
    THEN [data     |-> Append(SubSeq(vec.data, 1, vec.size), ts),
          size     |-> vec.size + 1,
          capacity |-> IF vec.capacity = 0 THEN 8 ELSE vec.capacity * 2]
    ELSE [vec EXCEPT !.data = Append(SubSeq(vec.data, 1, vec.size), ts),
                     !.size = vec.size + 1]

\* no test of the sample rate; the context is 64 samples
mono_vad_iterator_init(a) ==
    LET sr_per_ms == a[1] \div 1000
        window == a[2] * sr_per_ms
    IN  [ sample_rate |-> a[1],
          sr_per_ms |-> sr_per_ms,
          window_size_samples |-> window,
          effective_window_size |-> window + 64,
          context_samples |-> 64,
          size_state |-> 2 * 1 * 128,
          threshold |-> a[3],
          min_silence_samples |-> sr_per_ms * a[4],
          min_silence_samples_at_max_speech |-> sr_per_ms * 98,
          min_speech_samples |-> sr_per_ms * a[6],
          max_speech_samples |->
              IF a[7].inf
              THEN Infinity
              ELSE Finite(sr_per_ms * a[7].val - window - 2 * (sr_per_ms * a[5])),
          speech_pad_samples |-> sr_per_ms * a[5],
          triggered |-> FALSE, temp_end |-> 0, current_sample |-> 0,
          prev_end |-> 0, next_start |-> 0,
          current_speech |-> [start |-> -1, end |-> -1],
          speeches |-> [data |-> <<>>, size |-> 0, capacity |-> 0],
          context |-> Zeros(64),
          state |-> Zeros(2 * 1 * 128) ]

mono_vad_iterator_reset_states(v) ==
    [v EXCEPT !.state = Zeros(v.size_state),
              !.context = Zeros(v.context_samples),
              !.triggered = FALSE,
              !.temp_end = 0,
              !.current_sample = 0,
              !.prev_end = 0,
              !.next_start = 0,
              !.speeches = [@ EXCEPT !.data = <<>>, !.size = 0],
              !.current_speech = [start |-> -1, end |-> -1]]

\* one step: the engine after "5. Logic", every block ending with the memcpy
\* of the last context_samples of the input buffer into the context
mono_vad_predict(v, data_chunk) ==
    LET input_buffer == v.context \o data_chunk
        out == Infer(input_buffer, v.state)
        speech_prob == out.prob
        cur == v.current_sample + v.window_size_samples
        s == [v EXCEPT !.state = SubSeq(out.stateN, 1, v.size_state),
                       !.current_sample = cur,
                       !.context = SubSeq(input_buffer,
                                          v.effective_window_size - v.context_samples + 1,
                                          v.effective_window_size)]
        cleared == [s EXCEPT !.current_speech = [start |-> -1, end |-> -1],
                             !.prev_end = 0,
                             !.next_start = 0,
                             !.temp_end = 0,
                             !.triggered = FALSE]
    IN  IF speech_prob >= v.threshold
        THEN [s EXCEPT !.temp_end = 0,
                       !.next_start =
                           IF v.temp_end # 0 /\ v.next_start < v.prev_end
                           THEN cur - v.window_size_samples
                           ELSE @,
                       !.triggered = TRUE,
                       !.current_speech.start =
                           IF ~v.triggered THEN cur - v.window_size_samples ELSE @]
        ELSE IF v.triggered
                /\ GreaterThanFloat(cur - v.current_speech.start, v.max_speech_samples)
        THEN IF v.prev_end > 0
             THEN [cleared EXCEPT
                      !.speeches = mono_vec_push(v.speeches,
                                       [start |-> v.current_speech.start, end |-> v.prev_end]),
                      !.triggered = ~(v.next_start < v.prev_end),
                      !.current_speech.start =
                          IF v.next_start < v.prev_end THEN -1 ELSE v.next_start]
             ELSE [cleared EXCEPT
                      !.speeches = mono_vec_push(v.speeches,
                                       [start |-> v.current_speech.start, end |-> cur])]
        ELSE IF speech_prob >= v.threshold - 15 /\ speech_prob < v.threshold
        THEN s
        ELSE IF speech_prob < v.threshold - 15
        THEN IF v.triggered
             THEN LET temp_end == IF v.temp_end = 0 THEN cur ELSE v.temp_end
                      prev_end == IF cur - temp_end > v.min_silence_samples_at_max_speech
                                  THEN temp_end ELSE v.prev_end
                  IN  IF cur - temp_end >= v.min_silence_samples
                      THEN IF temp_end - v.current_speech.start > v.min_speech_samples
                           THEN [cleared EXCEPT
                                    !.speeches = mono_vec_push(v.speeches,
                                        [start |-> v.current_speech.start, end |-> temp_end])]
                           ELSE [s EXCEPT !.temp_end = temp_end,
                                          !.prev_end = prev_end,
                                          !.current_speech.end = temp_end]
                      ELSE [s EXCEPT !.temp_end = temp_end, !.prev_end = prev_end]
             ELSE s
        ELSE [s EXCEPT !.context = v.context]

\* mutant: the loop also stops on a window that ends exactly at the end of
\* the buffer
mono_LoopContinues_Inclusive(v, jj, len) ==
    jj < len /\ ~(jj + v.window_size_samples >= len)

\* for (j = 0; j < audio_length_samples; ...) { if (j + window > length) break;
mono_LoopContinues(v, jj, len) ==
    jj < len /\ ~(jj + v.window_size_samples > len)

mono_FlushOpen(v, len) ==
    IF v.current_speech.start >= 0
    THEN [v EXCEPT !.speeches = mono_vec_push(v.speeches,
                                    [start |-> v.current_speech.start, end |-> len]),
                   !.current_speech = [start |-> -1, end |-> -1],
                   !.prev_end = 0,
                   !.next_start = 0,
                   !.temp_end = 0,
                   !.triggered = FALSE]
    ELSE v

\* how vad_iterator_process of the monolithic copy can end on a call that the
\* library copy returns from at entry.  It has no entry test: it resets, and
\* returns only if the loop runs no step.  With a zero window size the loop
\* never advances; with a null buffer the first step copies from a null
\* pointer (undefined: a crash when bytes are read, a crash or no effect for
\* a copy of zero bytes).
mono_ProcessOutcomes(v, input_null, len) ==
    IF ~mono_LoopContinues(v, 0, len)
    THEN {"live"}
    ELSE IF v.window_size_samples = 0
    THEN IF input_null THEN {"crashed", "hung"} ELSE {"hung"}
    ELSE {"crashed"}

-----------------------------------------------------------------------------
(* wav.c: wav_reader_open and wav_reader_close.                              *)
(*                                                                           *)
(* A file is its length in bytes, the fields of its 44-byte header that the  *)
(* reader uses, and the chunks that follow the fmt chunk: the first chunk    *)
(* header is at byte 20 + fmt_size, each chunk is 8 bytes of header and      *)
(* `size` bytes of body.  Bytes past `len` do not exist (a file can be cut   *)
(* anywhere).                                                                *)

WavHeaderSize == 44
WavChunkHeaderSize == 8

WavChunk(id, size) == [id |-> id, size |-> size]

\* the chunks after the fmt chunk: no chunk, a data chunk announcing 0, 4 or
\* 8 bytes, the same after a LIST chunk of 2 bytes
WavChunkLayouts ==
    { <<>>, <<WavChunk("LIST", 2)>> }
    \cup { <<WavChunk("data", n)>> : n \in {0, 4, 8} }
    \cup { <<WavChunk("LIST", 2), WavChunk("data", n)>> : n \in {0, 4, 8} }

RECURSIVE WavChunksEnd(_, _)
\* the byte after the last chunk header of a layout that starts at pos
WavChunksEnd(chunks, pos) ==
    IF chunks = <<>> THEN pos
    ELSE IF Len(chunks) = 1 THEN pos + WavChunkHeaderSize
    ELSE WavChunksEnd(Tail(chunks), pos + WavChunkHeaderSize + Head(chunks).size)

\* the files given to wav_reader_open: a file that cannot be opened, and for
\* every header and layout the files with 0, 3, 4 or 8 bytes after the last
\* chunk header, and the file cut at byte 20
WavFiles ==
    { [present |-> FALSE, len |-> 0, fmt_size |-> 16, format |-> 1, channels |-> 1,
       sample_rate |-> 16000, bit |-> 16, chunks |-> <<>>] }
    \cup
    UNION {
        { [present |-> TRUE, len |-> l, fmt_size |-> fs, format |-> f, channels |-> c,
           sample_rate |-> 16000, bit |-> b, chunks |-> ch] :
            f \in {1, 2, 3}, c \in {0, 1, 2}, b \in {0, 4, 8, 12, 16, 32},
            l \in {20} \cup {WavChunksEnd(ch, 20 + fs) + body : body \in {0, 3, 4, 8}} } :
        fs \in {14, 16, 18}, ch \in WavChunkLayouts }

\* the reader after memset(reader, 0, sizeof(*reader))
ZeroedReader ==
    [num_channel |-> 0, sample_rate |-> 0, bits_per_sample |-> 0, num_samples |-> 0,
     data |-> [null |-> TRUE, size |-> 0], loaded |-> FALSE]

\* fread(buf, 1, n, fp) at byte pos returns n
WavCanRead(file, pos, n) == pos + n <= file.len

RECURSIVE WavFindData(_, _, _)
\* the `while (true)` loop that looks for the data chunk, from the k-th chunk
\* at byte pos: where the data begins and the size the chunk announces, or
\* the end of the file
WavFindData(file, k, pos) ==
    IF ~WavCanRead(file, pos, WavChunkHeaderSize) \/ k > Len(file.chunks)
    THEN [found |-> FALSE, pos |-> pos, size |-> 0]
    ELSE IF file.chunks[k].id = "data"
    THEN [found |-> TRUE, pos |-> pos + WavChunkHeaderSize, size |-> file.chunks[k].size]
    ELSE WavFindData(file, k + 1, pos + WavChunkHeaderSize + file.chunks[k].size)

\* the sample loops of the switch: one fread of `bytes` bytes per sample,
\* until num_data samples are read or a read fails
WavSamplesRead(file, pos, num_data, bytes) ==
    LET avail == (file.len - pos) \div bytes
    IN  IF avail < num_data THEN avail ELSE num_data

\* the outcomes of the call: what it returned ("true", "false", or "none"
\* when the process was ended inside it), the FILE handle ("none": never
\* opened), the reader, and the sample counts of the decode
WavOutcome(ret, fp, reader, num_data, samples_read) ==
    [ret |-> ret, fp |-> fp, reader |-> reader,
     num_data |-> num_data, samples_read |-> samples_read]

\* `cleanup:` with success == false
WavCleanupFailed(reader) ==
    WavOutcome("false", "closed", [reader EXCEPT !.data = [null |-> TRUE, size |-> 0]], 0, 0)

\* the switch on bits_per_sample and the truncation test after it
wav_decode(file, reader, data_pos, num_data) ==
    IF reader.bits_per_sample \in {8, 16} \/ (reader.bits_per_sample = 32 /\ file.format \in {1, 3})
    THEN LET samples_read ==
                 WavSamplesRead(file, data_pos, num_data, reader.bits_per_sample \div 8)
         IN  IF samples_read # num_data
             THEN WavCleanupFailed(reader)
             ELSE WavOutcome("true", "closed", [reader EXCEPT !.loaded = TRUE],
                             num_data, samples_read)
    ELSE WavCleanupFailed(reader)

\* wav_reader_open on a non-null reader and file name.  calloc_ok: calloc
\* returns a block; div_traps: what the integer division by zero of
\* `data_size / (bits_per_sample / 8)` does in this build (undefined
\* behaviour: it ends the process, or it yields 0 and the call goes on)
wav_reader_open(file, calloc_ok, div_traps) ==
    IF ~file.present
    THEN WavOutcome("false", "none", ZeroedReader, 0, 0)
    ELSE IF ~WavCanRead(file, 0, WavHeaderSize)
    THEN WavCleanupFailed(ZeroedReader)
    ELSE IF file.fmt_size < 16
    THEN WavCleanupFailed(ZeroedReader)
    ELSE IF file.fmt_size > 16 /\ ~WavCanRead(file, 44 - 8 + file.fmt_size - 16, 4)
    THEN WavCleanupFailed(ZeroedReader)
    ELSE
    LET chunk == WavFindData(file, 1, 20 + file.fmt_size)
    IN  IF ~chunk.found
        THEN WavCleanupFailed(ZeroedReader)
        ELSE
        LET data_size == IF chunk.size = 0 THEN file.len - chunk.pos ELSE chunk.size
            r1 == [ZeroedReader EXCEPT !.num_channel = file.channels,
                                       !.sample_rate = file.sample_rate,
                                       !.bits_per_sample = file.bit]
        IN  IF r1.num_channel = 0
            THEN WavCleanupFailed(r1)
            ELSE IF r1.bits_per_sample = 0
            THEN WavCleanupFailed(r1)
            ELSE IF r1.bits_per_sample \div 8 = 0 /\ div_traps
            THEN WavOutcome("none", "open", r1, 0, 0)
            ELSE
            LET num_data == IF r1.bits_per_sample \div 8 = 0
                            THEN 0
                            ELSE data_size \div (r1.bits_per_sample \div 8)
                r2 == [r1 EXCEPT !.num_samples = num_data \div r1.num_channel]
            IN  IF ~calloc_ok
                THEN WavCleanupFailed(r2)
                ELSE wav_decode(file, [r2 EXCEPT !.data = [null |-> FALSE, size |-> num_data]],
                                chunk.pos, num_data)

wav_reader_close(reader) ==
    IF ~reader.data.null
    THEN [reader EXCEPT !.data = [null |-> TRUE, size |-> 0], !.loaded = FALSE]
    ELSE reader

\* the reader before wav_reader_open is called on the file
WavUnopened(file) ==
    [file |-> file, at |-> "start", ret |-> "none", fp |-> "none", reader |-> ZeroedReader,
     num_data |-> 0, samples_read |-> 0]

-----------------------------------------------------------------------------
(* Actions *)

InitEngine(args) ==
    /\ init_args \in args
    /\ vad = vad_iterator_init(FALSE, init_args).vad
    /\ fresh = vad_iterator_init(FALSE, init_args).vad
    /\ alt = vad_iterator_init(FALSE, OtherPadArgs(init_args)).vad
    /\ mono = mono_vad_iterator_init(init_args)
    /\ mono_pc = "live"
    /\ pc = IF vad_iterator_init(FALSE, init_args).ok THEN "idle" ELSE "init_failed"
    /\ input_wav_null = FALSE
    /\ j = 0
    /\ audio_length_samples = 0
    /\ probs = <<>>
    /\ fed = <<>>
    /\ rules = <<>>
    /\ origin = <<>>
    /\ last_op = "init"

\* the engine is constructed; the WAV reader is not used
InitWith(args) ==
    /\ InitEngine(args)
    /\ wav = WavUnopened(CHOOSE f \in WavFiles : ~f.present)

Init == InitWith(InitArgs \cup UnsupportedArgs)

\* the caller resets the engine between two calls of process()
ResetStates ==
    /\ pc \in {"idle", "returned"}
    /\ vad' = vad_iterator_reset_states(vad)
    /\ mono' = IF mono_pc = "live" THEN mono_vad_iterator_reset_states(mono) ELSE mono
    /\ pc' = "idle"
    /\ probs' = <<>>
    /\ fed' = <<>>
    /\ rules' = <<>>
    /\ origin' = <<>>
    /\ last_op' = "reset"
    /\ UNCHANGED <<init_args, fresh, alt, mono_pc, input_wav_null, j, audio_length_samples,
                   wav>>

\* process() is called and returns at once
ProcessSkip ==
    /\ pc \in {"idle", "returned"}
    /\ fresh' = vad_iterator_init(FALSE, init_args).vad
    /\ alt' = vad_iterator_init(FALSE, OtherPadArgs(init_args)).vad
    /\ pc' = "returned"
    /\ last_op' = "skip"
    /\ vad' = ProcessEntryReturn(vad)
    /\ UNCHANGED <<init_args, j, probs, fed, rules, origin, wav>>
    /\ \E input_null \in BOOLEAN, len \in Tails :
        /\ ProcessReturnsAtEntry(vad, input_null)
        /\ audio_length_samples' = len
        /\ input_wav_null' = input_null
        /\ IF mono_pc = "live"
           THEN /\ mono' = mono_vad_iterator_reset_states(mono)
                /\ mono_pc' \in mono_ProcessOutcomes(mono, input_null, len)
           ELSE UNCHANGED <<mono, mono_pc>>

\* the lengths of the long audio buffers
LongAudioLengths(v) == { MaxLongWindows * v.window_size_samples }

\* process() is called on a buffer of one of the given lengths, resets the
\* engine and enters its loop
ProcessEnterOn(lengths) ==
    /\ pc \in {"idle", "returned"}
    /\ ~ProcessReturnsAtEntry(vad, FALSE)
    /\ vad' = vad_iterator_reset_states(vad)
    /\ fresh' = vad_iterator_reset_states(vad_iterator_init(FALSE, init_args).vad)
    /\ alt' = vad_iterator_reset_states(vad_iterator_init(FALSE, OtherPadArgs(init_args)).vad)
    /\ mono' = IF mono_pc = "live" THEN mono_vad_iterator_reset_states(mono) ELSE mono
    /\ input_wav_null' = FALSE
    /\ j' = 0
    /\ pc' = "loop"
    /\ probs' = <<>>
    /\ fed' = <<>>
    /\ rules' = <<>>
    /\ origin' = <<>>
    /\ last_op' = "enter"
    /\ \E len \in lengths : audio_length_samples' = len
    /\ UNCHANGED <<init_args, mono_pc, wav>>

ProcessEnter == ProcessEnterOn(AudioLengths(vad))

\* one iteration of the loop: vad_predict on the window at j
LoopStep ==
    /\ pc = "loop"
    /\ LoopContinues(vad, j, audio_length_samples)
    /\ \E c \in Samples :
        LET data_chunk == Window(vad, c)
        IN  /\ vad' = vad_predict(vad, data_chunk)
            /\ fresh' = vad_predict(fresh, data_chunk)
            /\ alt' = vad_predict(alt, data_chunk)
            /\ mono' = IF mono_pc = "live" /\ mono_LoopContinues(mono, j, audio_length_samples)
                       THEN mono_vad_predict(mono, data_chunk)
                       ELSE mono
            /\ probs' = Append(probs, StepProb(vad, data_chunk))
            /\ fed' = Append(fed, c)
            /\ rules' = Append(rules, StepBranch(vad, data_chunk))
            /\ origin' = IF vad'.speeches.size > vad.speeches.size
                         THEN Append(origin, IF StepBranch(vad, data_chunk) = 2
                                             THEN "max_speech" ELSE "silence")
                         ELSE origin
    /\ j' = j + vad.window_size_samples
    /\ last_op' = "step"
    /\ UNCHANGED <<init_args, mono_pc, pc, input_wav_null, audio_length_samples, wav>>

\* an ONNX Runtime call of vad_predict returns an error status: check_status
\* ends the process before the state, the cursor or the list is written
ClassifierFails ==
    /\ pc = "loop"
    /\ LoopContinues(vad, j, audio_length_samples)
    /\ pc' = check_status(FALSE, pc)
    /\ last_op' = "classifier_failed"
    /\ UNCHANGED <<init_args, vad, fresh, alt, mono, mono_pc, input_wav_null, j,
                   audio_length_samples, probs, fed, rules, origin, wav>>

\* the next vec_push of the call (in a step or in the flush) has to grow the
\* list and realloc returns nullptr: vec_push ends the process
OutOfMemory ==
    /\ pc = "loop"
    /\ vec_push_reallocs(vad.speeches)
    /\ IF LoopContinues(vad, j, audio_length_samples)
       THEN \E c \in Samples :
               vad_predict(vad, Window(vad, c)).speeches.size > vad.speeches.size
       ELSE vad.current_speech.start >= 0
    /\ pc' = vec_push_outcome(FALSE, pc)
    /\ last_op' = "oom"
    /\ UNCHANGED <<init_args, vad, fresh, alt, mono, mono_pc, input_wav_null, j,
                   audio_length_samples, probs, fed, rules, origin, wav>>

\* the loop ends: the flush, and process() returns
LoopExit ==
    /\ pc = "loop"
    /\ ~LoopContinues(vad, j, audio_length_samples)
    /\ vad' = FlushOpen(vad, audio_length_samples)
    /\ fresh' = FlushOpen(fresh, audio_length_samples)
    /\ alt' = FlushOpen(alt, audio_length_samples)
    /\ mono' = IF mono_pc = "live" /\ ~mono_LoopContinues(mono, j, audio_length_samples)
               THEN mono_FlushOpen(mono, audio_length_samples)
               ELSE mono
    /\ origin' = IF vad'.speeches.size > vad.speeches.size
                 THEN Append(origin, "flush") ELSE origin
    /\ pc' = "returned"
    /\ last_op' = "flush"
    /\ UNCHANGED <<init_args, mono_pc, input_wav_null, j, audio_length_samples, probs, fed,
                   rules, wav>>

Next ==
    \/ ResetStates
    \/ ProcessSkip
    \/ ProcessEnter
    \/ LoopStep
    \/ ClassifierFails
    \/ OutOfMemory
    \/ LoopExit

Spec == Init /\ [][Next]_vars

-----------------------------------------------------------------------------
(* Long buffers.  Besides the calls of Spec, the engines of LongArgs are      *)
(* given buffers of MaxLongWindows windows in which speech and confident     *)
(* silence alternate, window by window, so that one segment is pushed every  *)
(* second window and the segment list outgrows its first block.              *)

\* the current call is on a long buffer
LongCall == audio_length_samples > MaxWindows * vad.window_size_samples + 1

\* the probabilities of an alternating buffer: speech on the odd windows,
\* confident silence on the even ones
Alternating(ps) ==
    \A i \in 1..Len(ps) :
        ps[i] = IF i % 2 = 1 THEN ProbLevels[3] ELSE ProbLevels[1]

ProcessEnterLong ==
    /\ init_args \in LongArgs
    /\ ProcessEnterOn(LongAudioLengths(vad))

LoopStepLong ==
    /\ LoopStep
    /\ LongCall => Alternating(probs')

NextLong ==
    \/ ResetStates
    \/ ProcessSkip
    \/ ProcessEnter
    \/ ProcessEnterLong
    \/ LoopStepLong
    \/ ClassifierFails
    \/ OutOfMemory
    \/ LoopExit

SpecLong == Init /\ [][NextLong]_vars

-----------------------------------------------------------------------------
(* Deeper runs of one engine: the engines of DeepArgs are given every buffer  *)
(* of up to MaxDeepWindows windows.                                          *)

DeepAudioLengths(v) ==
    { n * v.window_size_samples + r : n \in 0..MaxDeepWindows, r \in Tails }

InitDeep == InitWith(DeepArgs)

ProcessEnterDeep == ProcessEnterOn(DeepAudioLengths(vad))

NextDeep ==
    \/ ResetStates
    \/ ProcessSkip
    \/ ProcessEnterDeep
    \/ LoopStep
    \/ ClassifierFails
    \/ OutOfMemory
    \/ LoopExit

SpecDeep == InitDeep /\ [][NextDeep]_vars

-----------------------------------------------------------------------------
(* The WAV reader alone: main() opens the input file and closes the reader   *)
(* when it is done.  The engine variables hold the engine main() constructs  *)
(* for a 16 kHz file; they do not change while the reader runs.              *)

\* the arguments of the engine main() constructs for a 16 kHz file
MainArgs == { <<16000, 32, 50, 100, 30, 250, Infinity>> }

InitWav ==
    /\ InitEngine(MainArgs)
    /\ \E file \in WavFiles : wav = WavUnopened(file)

\* the engine variables
engine_vars ==
    <<init_args, vad, fresh, alt, mono, mono_pc, pc, input_wav_null, j, audio_length_samples,
      probs, fed, rules, origin, last_op>>

\* main() calls wav_reader_open
WavReaderOpen ==
    /\ wav.at = "start"
    /\ \E calloc_ok \in BOOLEAN, div_traps \in BOOLEAN :
        LET out == wav_reader_open(wav.file, calloc_ok, div_traps)
        IN  wav' = [file |-> wav.file,
                    at |-> IF out.ret = "none" THEN "crashed" ELSE "opened",
                    ret |-> out.ret, fp |-> out.fp, reader |-> out.reader,
                    num_data |-> out.num_data, samples_read |-> out.samples_read]
    /\ UNCHANGED engine_vars

\* main() calls wav_reader_close on the reader it opened
WavReaderClose ==
    /\ wav.at = "opened"
    /\ wav.ret = "true"
    /\ wav' = [wav EXCEPT !.reader = wav_reader_close(wav.reader), !.at = "closed"]
    /\ UNCHANGED engine_vars

NextWav ==
    \/ WavReaderOpen
    \/ WavReaderClose

SpecWav == InitWav /\ [][NextWav]_vars

-----------------------------------------------------------------------------
(* Vocabulary of the properties *)

\* process() has run its loop and returned
ProcessDone == pc = "returned" /\ last_op = "flush"

\* inside a run of process(), between steps, or just returned from it
InRun == pc = "loop" \/ ProcessDone

IsSpeech(p) == p >= vad.threshold
IsConfidentSilence(p) == p < vad.threshold - Hysteresis

AllSpeech == \A i \in 1..Len(probs) : IsSpeech(probs[i])
AllConfidentSilence == \A i \in 1..Len(probs) : IsConfidentSilence(probs[i])

PushedBy(tag) == \E i \in 1..Len(origin) : origin[i] = tag

\* the transition is a step of the loop; its probability, its cursor value
\* and whether the candidate open before it is over the duration cap
StepTaken == last_op' = "step"
StepP == probs'[Len(probs')]
StepCursor == vad.current_sample + vad.window_size_samples
StepOverCap ==
    /\ vad.triggered
    /\ GreaterThanFloat(StepCursor - vad.current_speech.start, vad.max_speech_samples)

\* the fields the four rules work on
Logic(v) ==
    << v.triggered, v.temp_end, v.prev_end, v.next_start, v.current_speech,
       Segments(v) >>

-----------------------------------------------------------------------------
(* C1 *)

\* C1: every segment of the list has start < end, at every step of a run and
\* when process() returns, whichever rule pushed it (duration cap, silence
\* close, end-of-stream flush), for every configuration with
\* window_size_samples > 0.
C1_StartBeforeEnd ==
    (vad.window_size_samples > 0 /\ InRun) =>
        \A i \in 1..Len(Segments(vad)) :
            Segments(vad)[i].start < Segments(vad)[i].end

\* a returned run whose list holds a segment of each kind pushed while stepping
C1_Witness ==
    /\ ProcessDone
    /\ vad.window_size_samples > 0
    /\ PushedBy("silence")
    /\ PushedBy("max_speech")

-----------------------------------------------------------------------------
(* C2 *)

\* C2: consecutive segments are in non-decreasing start order and do not
\* overlap: start_i <= start_(i+1) and end_i <= start_(i+1), also when the
\* duration-cap rule re-opens a candidate at next_start.
C2_OrderedDisjoint ==
    InRun =>
        \A i \in 1..(Len(Segments(vad)) - 1) :
            /\ Segments(vad)[i].start <= Segments(vad)[i + 1].start
            /\ Segments(vad)[i].end <= Segments(vad)[i + 1].start

\* the cap rule closed a segment at prev_end and re-opened at next_start; the
\* re-opened candidate was then pushed
C2_Witness ==
    /\ ProcessDone
    /\ Len(origin) = 2
    /\ origin[1] = "max_speech"
    /\ Segments(vad)[1].end < Segments(vad)[2].start
    /\ Segments(vad)[2].start < vad.current_sample - vad.window_size_samples

-----------------------------------------------------------------------------
(* C3 *)

\* C3 (as claimed): whenever process() returns, the segment list of the engine
\* that ran earlier calls equals the list of a freshly initialised engine given
\* the same call; the classifier is the deterministic function Infer.
C3_UnaffectedByPriorRuns ==
    pc = "returned" => Segments(vad) = Segments(fresh)

\* the part of C3 that holds: calls with a non-null buffer
C3_UnaffectedWhenNotNull ==
    (pc = "returned" /\ ~input_wav_null) => Segments(vad) = Segments(fresh)

-----------------------------------------------------------------------------
(* C4 *)

\* C4: after vad_iterator_reset_states() the segment list is empty, triggered
\* is false, temp_end = prev_end = next_start = current_sample = 0,
\* current_speech = (-1,-1), and every element of the recurrent state and of
\* the context buffer is zero.
C4_ResetClears ==
    last_op = "reset" =>
        /\ Segments(vad) = <<>>
        /\ vad.speeches.size = 0
        /\ vad.triggered = FALSE
        /\ vad.temp_end = 0
        /\ vad.prev_end = 0
        /\ vad.next_start = 0
        /\ vad.current_sample = 0
        /\ vad.current_speech = NoSpeech
        /\ Len(vad.state) = vad.size_state
        /\ \A i \in 1..Len(vad.state) : vad.state[i] = 0
        /\ Len(vad.context) = vad.context_samples
        /\ \A i \in 1..Len(vad.context) : vad.context[i] = 0

\* a reset of an engine that has pushed segments in an earlier run
C4_Witness ==
    /\ last_op = "reset"
    /\ vad.speeches.capacity > 0

-----------------------------------------------------------------------------
(* C5 *)

\* C5 (as claimed): when process() returns from a call on zero samples the
\* segment list is empty, whatever the engine held before the call.
C5_EmptyInputEmptyList ==
    (pc = "returned" /\ audio_length_samples = 0) => Segments(vad) = <<>>

\* the part of C5 that holds: a non-null buffer of zero samples
C5_EmptyInputNotNull ==
    (pc = "returned" /\ audio_length_samples = 0 /\ ~input_wav_null)
        => Segments(vad) = <<>>

-----------------------------------------------------------------------------
(* C6 *)

\* the premise of C6: process() returned after feeding N >= 1 windows, all with
\* probability >= threshold, and N * window_size_samples >= min_speech_samples
C6_Premise ==
    /\ ProcessDone
    /\ Len(probs) >= 1
    /\ AllSpeech
    /\ Len(probs) * vad.window_size_samples >= vad.min_speech_samples

\* C6 (as claimed): then the list is exactly the one segment
\* [0, N * window_size_samples), pushed by the end-of-stream flush.
C6_OneSegmentToLastWindow ==
    C6_Premise =>
        /\ Segments(vad) =
              << [start |-> 0, end |-> Len(probs) * vad.window_size_samples] >>
        /\ origin = << "flush" >>

\* C6 (amended): then the list is exactly the one segment
\* [0, audio_length_samples), pushed by the end-of-stream flush; its end is
\* N * window_size_samples only when no partial window trails the audio.
C6_OneSegmentToAudioEnd ==
    C6_Premise =>
        /\ Segments(vad) = << [start |-> 0, end |-> audio_length_samples] >>
        /\ origin = << "flush" >>
        /\ (audio_length_samples % vad.window_size_samples = 0
              => Segments(vad)[1].end = Len(probs) * vad.window_size_samples)

\* sustained speech over several windows, longer than min_speech_samples > 0,
\* with a trailing partial window
C6_Witness ==
    /\ C6_Premise
    /\ Len(probs) >= 3
    /\ vad.min_speech_samples > 0
    /\ audio_length_samples > Len(probs) * vad.window_size_samples

-----------------------------------------------------------------------------
(* C7 *)

\* C7: while every window fed so far has probability < threshold - 0.15, the
\* engine is not triggered and the segment list is empty, at every step and
\* when process() returns.
C7_SilenceNeverTriggers ==
    (InRun /\ AllConfidentSilence) =>
        /\ ~vad.triggered
        /\ vad.current_speech = NoSpeech
        /\ Segments(vad) = <<>>

\* a returned run of several windows, all confident silence
C7_Witness ==
    /\ ProcessDone
    /\ Len(probs) >= 3
    /\ AllConfidentSilence

-----------------------------------------------------------------------------
(* C8 *)

\* the input of C8: one triggering window, then only confident silence, long
\* enough for rule 4 to reach its min_silence_samples test, and a tentative
\* segment (first window plus the window that set temp_end) that is not
\* longer than min_speech_samples; the whole input is within the duration cap
C8_Premise ==
    /\ ProcessDone
    /\ Len(probs) >= 2
    /\ IsSpeech(probs[1])
    /\ \A i \in 2..Len(probs) : IsConfidentSilence(probs[i])
    /\ (Len(probs) - 2) * vad.window_size_samples >= vad.min_silence_samples
    /\ 2 * vad.window_size_samples <= vad.min_speech_samples
    /\ ~GreaterThanFloat(vad.current_sample, vad.max_speech_samples)

\* C8 (as claimed): for such an input the segment list is empty when
\* process() returns.
C8_ShortBlipDropped == C8_Premise => Segments(vad) = <<>>

-----------------------------------------------------------------------------
(* C9 *)

\* C9 (as claimed): with a finite max_speech_samples, while the probability has
\* stayed >= threshold on every window, the open candidate is never longer
\* than max_speech_samples after a step: a boundary is forced at the latest at
\* the step where the duration exceeds the cap.
C9_CapForcesBoundary ==
    (InRun /\ last_op = "step" /\ AllSpeech /\ vad.triggered) =>
        ~GreaterThanFloat(vad.current_sample - vad.current_speech.start,
                          vad.max_speech_samples)

-----------------------------------------------------------------------------
(* C10 *)

\* C10: when the loop of process() ends with a candidate open
\* (current_speech.start >= 0), (start, audio_length_samples) is appended as
\* the last segment, whatever its duration; the end is the total sample count,
\* the samples of a dropped partial window included.
C10_FlushPushesOpenCandidate ==
    [][ (pc = "loop" /\ pc' = "returned" /\ vad.current_speech.start >= 0) =>
            Segments(vad') =
                Append(Segments(vad),
                       [start |-> vad.current_speech.start,
                        end   |-> audio_length_samples]) ]_vars

\* a flushed segment not longer than min_speech_samples whose end lies past
\* the last whole window
C10_Witness ==
    /\ ProcessDone
    /\ Len(origin) >= 1
    /\ origin[Len(origin)] = "flush"
    /\ LET last == Segments(vad)[Len(origin)]
       IN  /\ last.end - last.start <= vad.min_speech_samples
           /\ last.end = audio_length_samples
           /\ last.end > vad.current_sample

-----------------------------------------------------------------------------
(* C11 *)

\* C11: for a buffer of L samples and window_size_samples W > 0, process()
\* starts from the reset cursor and steps whole windows only, the k-th step on
\* the window at offset (k-1) * W: between steps j = current_sample = W * (steps
\* done) and no stepped window reaches past L; when the loop has ended exactly
\* floor(L / W) steps were run and current_sample = W * floor(L / W), so the
\* trailing L mod W samples were never passed to a step.
C11_WholeWindowsInOrder ==
    (InRun /\ vad.window_size_samples > 0) =>
        /\ j = Len(probs) * vad.window_size_samples
        /\ vad.current_sample = j
        /\ j <= audio_length_samples
        /\ ProcessDone =>
              /\ Len(probs) = audio_length_samples \div vad.window_size_samples
              /\ vad.current_sample =
                    vad.window_size_samples
                        * (audio_length_samples \div vad.window_size_samples)

\* a returned run of several windows on a buffer with a trailing partial window
C11_Witness ==
    /\ ProcessDone
    /\ Len(probs) >= 3
    /\ audio_length_samples % vad.window_size_samples # 0

-----------------------------------------------------------------------------
(* C12 *)

\* C12: with window_size_samples = 0 process() runs no step and returns: the
\* engine is never inside the loop, no classifier call was made, the cursor
\* stays 0 and no segment exists.  With W > 0 every iteration of the loop
\* strictly decreases audio_length_samples - j, which stays >= 0, so the loop
\* ends for every length.
C12_TerminatesForEveryWindowSize ==
    /\ [](vad.window_size_samples = 0 =>
            /\ pc # "loop"
            /\ probs = <<>>
            /\ vad.current_sample = 0
            /\ Segments(vad) = <<>>)
    /\ [][ (pc = "loop" /\ pc' = "loop") =>
              /\ audio_length_samples' - j' >= 0
              /\ audio_length_samples' - j' < audio_length_samples - j ]_vars

\* process() returned from a call on a non-null, non-empty buffer with a zero
\* window size
C12_Witness ==
    /\ vad.window_size_samples = 0
    /\ pc = "returned"
    /\ last_op = "skip"
    /\ ~input_wav_null
    /\ audio_length_samples > 0

-----------------------------------------------------------------------------
(* C13 *)

\* C13 (as claimed): each configuration error is reported to the caller, by
\* vad_iterator_init() or at entry to process(), before any step: an
\* unsupported sample rate makes the constructor fail, a call that meets a
\* zero window size or a null buffer reports it, and no step runs in either
\* case.
C13_ConfigErrorsReported ==
    /\ init_args[1] \notin {8000, 16000} => InitReports(init_args)
    /\ (pc = "returned" /\ last_op = "skip") =>
            InitReports(init_args) \/ ProcessReports(vad, input_wav_null)
    /\ vad.window_size_samples = 0 => pc # "loop"

\* the part of C13 that holds: an unsupported sample rate is reported by the
\* constructor, and a zero window size or a null buffer stops the call at
\* entry, before any step
C13_DetectedBeforeAnyStep ==
    /\ init_args[1] \notin {8000, 16000} => (InitReports(init_args) /\ pc = "init_failed")
    /\ vad.window_size_samples = 0 => (pc # "loop" /\ vad.current_sample = 0)

-----------------------------------------------------------------------------
(* C14 *)

\* C14: when the classifier fails at a step of process(), the call is aborted
\* there: the failing step writes nothing to the engine, the program is ended
\* (check_status exits), and nothing runs afterwards - no retry of the
\* classifier, no step on a later window, no flush and no return of process()
\* with the segments collected so far.
C14_ClassifierFailureAborts ==
    /\ [](last_op = "classifier_failed" => pc = "exited")
    /\ [][ /\ last_op' = "classifier_failed" =>
                (vad' = vad /\ probs' = probs /\ j' = j)
           /\ last_op = "classifier_failed" => UNCHANGED vars ]_vars

\* the classifier failed after two steps of a run that had already pushed a
\* segment
C14_Witness ==
    /\ last_op = "classifier_failed"
    /\ pc = "exited"
    /\ Len(probs) >= 2
    /\ Len(Segments(vad)) >= 1

-----------------------------------------------------------------------------
(* C15 *)

\* the last context_samples samples of the windows stepped so far in this
\* call, left-padded with zeros: sample n (from 1) of the consumed audio lies
\* in window (n - 1) \div W + 1
C15_LastConsumedSamples ==
    [i \in 1..vad.context_samples |->
        LET n == Len(fed) * vad.window_size_samples - vad.context_samples + i
        IN  IF n <= 0 THEN 0 ELSE fed[(n - 1) \div vad.window_size_samples + 1]]

\* C15: at the start of every step of a run (and after the last one) the
\* context buffer holds exactly the last context_samples samples of the
\* windows consumed by the earlier steps, left-padded with zeros; the
\* classifier input of the step is that context followed by the window, of
\* length W + context_samples.  As this holds after every step, the buffer
\* was refreshed whichever rule the step ran.
C15_ContextIsTailOfConsumedAudio ==
    (InRun /\ vad.window_size_samples > 0) =>
        /\ vad.context = C15_LastConsumedSamples
        /\ \A c \in Samples :
              LET input == AssembleInput(vad, Window(vad, c))
              IN  /\ Len(input) = vad.window_size_samples + vad.context_samples
                  /\ SubSeq(input, 1, vad.context_samples) = C15_LastConsumedSamples
                  /\ SubSeq(input, vad.context_samples + 1, Len(input)) = Window(vad, c)

\* three windows shorter than the context were stepped: the buffer holds zero
\* padding, then the three windows, the first two of different amplitude
C15_Witness ==
    /\ pc = "loop"
    /\ Len(fed) = 3
    /\ 3 * vad.window_size_samples < vad.context_samples
    /\ fed[1] # 0
    /\ fed[2] # fed[1]

-----------------------------------------------------------------------------
(* C16 *)

\* C16: a step leaves in the engine exactly the next state the classifier
\* returned for that step's input and the state held before the step - which
\* is what the following step passes; the state is all zeros when a run
\* starts, and apart from a step only the reset (alone or at the start of
\* process()) writes it.
C16_StateThreadedThroughSteps ==
    /\ []((pc = "loop" /\ fed = <<>>) => vad.state = Zeros(vad.size_state))
    /\ [][ /\ last_op' = "step" =>
                vad'.state =
                    Infer(AssembleInput(vad, Window(vad, fed'[Len(fed')])),
                          vad.state).stateN
           /\ last_op' \in {"reset", "enter"} => vad'.state = Zeros(vad.size_state)
           /\ last_op' \notin {"step", "reset", "enter"} => vad'.state = vad.state ]_vars

\* after two steps the engine holds a non-zero recurrent state
C16_Witness ==
    /\ last_op = "step"
    /\ Len(fed) >= 2
    /\ \E i \in 1..Len(vad.state) : vad.state[i] # 0

-----------------------------------------------------------------------------
(* C17 *)

\* C17 (as claimed): with the other construction inputs fixed, the segment
\* list process() returns is the same whatever value speech_pad_ms has.
C17_PadNeverChangesSegments ==
    ProcessDone => Segments(vad) = Segments(alt)

\* C17 (amended): speech_pad_samples is not applied to any boundary; it enters
\* only max_speech_samples (sample_rate * max_speech_s - window_size_samples -
\* 2 * speech_pad_samples).  With max_speech_s infinite the segment list is the
\* same, at every step and at return, whatever value speech_pad_ms has.
C17_PadOnlyActsThroughCap ==
    (InRun /\ vad.max_speech_samples.inf) =>
        /\ alt.max_speech_samples.inf
        /\ Segments(vad) = Segments(alt)
        /\ vad.current_speech = alt.current_speech

\* a returned run with two segments on engines built without a duration cap
\* and with different paddings
C17_Witness ==
    /\ ProcessDone
    /\ vad.max_speech_samples.inf
    /\ vad.speech_pad_samples # alt.speech_pad_samples
    /\ Len(Segments(vad)) >= 2

-----------------------------------------------------------------------------
(* C18 *)

\* the configuration fields of an engine
C18_Config(v) ==
    << v.sample_rate, v.window_size_samples, v.context_samples,
       v.effective_window_size, v.threshold, v.min_silence_samples,
       v.speech_pad_samples, v.min_speech_samples, v.max_speech_samples,
       v.min_silence_samples_at_max_speech >>

\* C18: the configuration is immutable after construction: in every state,
\* after any sequence of steps, resets and process() calls, the ten
\* configuration fields hold the values vad_iterator_init computed from its
\* arguments.
C18_ConfigImmutable ==
    C18_Config(vad) = C18_Config(vad_iterator_init(FALSE, init_args).vad)

\* a returned run of three steps on an engine that ran and was reset before
\* (it holds list storage but no segment)
C18_Witness ==
    /\ ProcessDone
    /\ Len(probs) >= 3
    /\ vad.speeches.capacity > 0
    /\ Segments(vad) = <<>>

-----------------------------------------------------------------------------
(* C19 *)

\* the capacities the list storage takes: 0, then 8, then doublings
C19_Capacities == {0} \cup { InitialCapacity * 2^k : k \in 0..2 }

\* C19: within one run the segment list is append-only: a step or the flush
\* leaves the list as it is or adds exactly one segment at its end, earlier
\* segments keep their values, also when the storage grows (capacity 0, then
\* 8, then doubling, exactly when the list is full); size <= capacity in every
\* state; and the list only gets shorter by a reset (alone or at the start of
\* process()).
C19_ListAppendOnly ==
    /\ [](/\ vad.speeches.size <= vad.speeches.capacity
          /\ vad.speeches.capacity \in C19_Capacities
          /\ Len(Segments(vad)) = vad.speeches.size)
    /\ [][ /\ pc = "loop" =>
                /\ vad'.speeches.size \in {vad.speeches.size, vad.speeches.size + 1}
                /\ SubSeq(Segments(vad'), 1, vad.speeches.size) = Segments(vad)
                /\ vad'.speeches.capacity =
                      IF vad'.speeches.size <= vad.speeches.capacity
                      THEN vad.speeches.capacity
                      ELSE IF vad.speeches.capacity = 0
                           THEN InitialCapacity
                           ELSE 2 * vad.speeches.capacity
           /\ vad'.speeches.size < vad.speeches.size =>
                (last_op' \in {"reset", "enter"} /\ vad'.speeches.size = 0) ]_vars

\* a returned run whose ninth segment made the storage grow from 8 to 16
C19_Witness ==
    /\ ProcessDone
    /\ Len(Segments(vad)) = 9
    /\ vad.speeches.capacity = 2 * InitialCapacity

-----------------------------------------------------------------------------
(* C20 *)

\* C20 (as claimed): when appending to the segment list fails to allocate
\* memory, the failure is propagated to the caller as an error result and the
\* process is not terminated: after the failed allocation the program is
\* still running, back in the caller of process().
C20_AllocationFailurePropagates ==
    last_op = "oom" => (pc # "exited" /\ pc = "returned")

-----------------------------------------------------------------------------
(* C21 *)

\* C21: after a successful vad_iterator_init(), in every later state:
\* context_samples is 64 at 16000 Hz and 32 at 8000 Hz; window_size_samples,
\* min_silence_samples, speech_pad_samples and min_speech_samples are their
\* millisecond arguments times sample_rate / 1000;
\* min_silence_samples_at_max_speech is 98 * sample_rate / 1000; and
\* effective_window_size is window_size_samples + context_samples.
C21_DerivedSizes ==
    ~InitReports(init_args) =>
        LET sample_rate == init_args[1]
        IN  /\ sample_rate = 16000 => vad.context_samples = 64
            /\ sample_rate = 8000 => vad.context_samples = 32
            /\ 1000 * vad.window_size_samples = init_args[2] * sample_rate
            /\ 1000 * vad.min_silence_samples = init_args[4] * sample_rate
            /\ 1000 * vad.speech_pad_samples = init_args[5] * sample_rate
            /\ 1000 * vad.min_speech_samples = init_args[6] * sample_rate
            /\ 1000 * vad.min_silence_samples_at_max_speech = 98 * sample_rate
            /\ vad.effective_window_size =
                  vad.window_size_samples + vad.context_samples

\* an engine just constructed at 8000 Hz with a non-zero padding and a
\* non-zero minimum silence
C21_Witness ==
    /\ last_op = "init"
    /\ pc = "idle"
    /\ init_args[1] = 8000
    /\ vad.speech_pad_samples > 0
    /\ vad.window_size_samples > 0

-----------------------------------------------------------------------------
(* C22 *)

\* the rule the priority order of C22 selects
C22_Rule ==
    IF StepP >= vad.threshold THEN 1
    ELSE IF StepOverCap THEN 2
    ELSE IF StepP >= vad.threshold - Hysteresis THEN 3
    ELSE 4

\* C22: in every step the cursor is first increased by window_size_samples
\* and then exactly the rule selected by the priority order runs on the
\* engine with the advanced cursor: rule 1 if prob >= threshold, else rule 2
\* if triggered and over the cap, else rule 3 if prob >= threshold - 0.15,
\* else rule 4.  On a confident-silence window with an over-cap candidate
\* rule 2 runs: a segment is pushed and temp_end is 0 after the step.
C22_OneRuleByPriority ==
    [][ StepTaken =>
          LET v0 == [vad EXCEPT !.current_sample = StepCursor]
          IN  /\ vad'.current_sample = StepCursor
              /\ rules'[Len(rules')] = C22_Rule
              /\ Logic(vad') =
                    Logic(CASE C22_Rule = 1 -> SpeechBranch(v0)
                            [] C22_Rule = 2 -> MaxSpeechBranch(v0)
                            [] C22_Rule = 3 -> v0
                            [] C22_Rule = 4 -> SilenceBranch(v0))
              /\ (StepP < vad.threshold - Hysteresis /\ StepOverCap) =>
                    /\ vad'.temp_end = 0
                    /\ vad'.speeches.size = vad.speeches.size + 1 ]_vars

\* a step on a confident-silence window ran rule 2
C22_Witness ==
    /\ last_op = "step"
    /\ rules[Len(rules)] = 2
    /\ IsConfidentSilence(probs[Len(probs)])

-----------------------------------------------------------------------------
(* C23 *)

\* C23: on a step with prob >= threshold: temp_end is 0 afterwards; next_start
\* becomes this window's start (current_sample - window_size_samples) exactly
\* when temp_end was not 0 and next_start < prev_end, and is otherwise kept;
\* an engine that was not triggered becomes triggered with current_speech.start
\* at this window's start, an engine already triggered keeps its
\* current_speech.start; prev_end and the segment list are unchanged.
C23_SpeechStep ==
    [][ (StepTaken /\ StepP >= vad.threshold) =>
          LET window_start == StepCursor - vad.window_size_samples
          IN  /\ vad'.temp_end = 0
              /\ vad'.next_start =
                    IF vad.temp_end # 0 /\ vad.next_start < vad.prev_end
                    THEN window_start ELSE vad.next_start
              /\ vad'.triggered
              /\ vad'.current_speech.start =
                    IF vad.triggered THEN vad.current_speech.start ELSE window_start
              /\ vad'.prev_end = vad.prev_end
              /\ vad'.speeches = vad.speeches ]_vars

\* a speech window cancelled a pending close and moved next_start to its own
\* start, past a recorded prev_end
C23_Witness ==
    /\ last_op = "step"
    /\ rules[Len(rules)] = 1
    /\ vad.prev_end > 0
    /\ vad.next_start = vad.current_sample - vad.window_size_samples
    /\ vad.current_speech.start < vad.next_start

-----------------------------------------------------------------------------
(* C24 *)

\* C24: on a step with prob < threshold where the engine is triggered, the
\* candidate is over max_speech_samples and prev_end > 0: (start, prev_end) is
\* appended to the list; if next_start < prev_end the engine stops triggering
\* with current_speech = (-1,-1), otherwise it stays triggered with
\* current_speech.start = next_start; prev_end, next_start and temp_end are 0
\* afterwards.
C24_CapSplitsAtPrevEnd ==
    [][ (StepTaken /\ StepP < vad.threshold /\ StepOverCap /\ vad.prev_end > 0) =>
          /\ Segments(vad') =
                Append(Segments(vad),
                       [start |-> vad.current_speech.start, end |-> vad.prev_end])
          /\ IF vad.next_start < vad.prev_end
             THEN ~vad'.triggered /\ vad'.current_speech = NoSpeech
             ELSE vad'.triggered /\ vad'.current_speech.start = vad.next_start
          /\ vad'.prev_end = 0
          /\ vad'.next_start = 0
          /\ vad'.temp_end = 0 ]_vars

\* the cap rule closed a segment at prev_end and re-opened a candidate at a
\* later next_start
C24_Witness ==
    /\ last_op = "step"
    /\ rules[Len(rules)] = 2
    /\ vad.triggered
    /\ Segments(vad)[Len(Segments(vad))].end < vad.current_speech.start

-----------------------------------------------------------------------------
(* C25 *)

\* C25: on a step with prob < threshold where the engine is triggered, the
\* candidate is over max_speech_samples and prev_end = 0: (start,
\* current_sample) is appended to the list, and afterwards triggered is
\* false, current_speech = (-1,-1) and prev_end = next_start = temp_end = 0.
C25_CapClosesAtCursor ==
    [][ (StepTaken /\ StepP < vad.threshold /\ StepOverCap /\ vad.prev_end = 0) =>
          /\ Segments(vad') =
                Append(Segments(vad),
                       [start |-> vad.current_speech.start, end |-> StepCursor])
          /\ ~vad'.triggered
          /\ vad'.current_speech = NoSpeech
          /\ vad'.prev_end = 0
          /\ vad'.next_start = 0
          /\ vad'.temp_end = 0 ]_vars

\* the cap rule closed a segment at the cursor
C25_Witness ==
    /\ last_op = "step"
    /\ rules[Len(rules)] = 2
    /\ ~vad.triggered
    /\ Segments(vad)[Len(Segments(vad))].end = vad.current_sample

-----------------------------------------------------------------------------
(* C26 *)

\* C26: a step handled by rule 3 (threshold - 0.15 <= prob < threshold, cap
\* not exceeded) advances the cursor and leaves triggered, temp_end, prev_end,
\* next_start, current_speech and the segment list unchanged: it neither
\* starts nor cancels a pending close.
C26_AmbiguousStepChangesNothing ==
    [][ (/\ StepTaken
         /\ StepP >= vad.threshold - Hysteresis
         /\ StepP < vad.threshold
         /\ ~StepOverCap) =>
          /\ vad'.current_sample = StepCursor
          /\ Logic(vad') = Logic(vad)
          /\ vad'.speeches = vad.speeches ]_vars

\* a rule-3 step while a close is pending
C26_Witness ==
    /\ last_op = "step"
    /\ rules[Len(rules)] = 3
    /\ vad.triggered
    /\ vad.temp_end # 0

-----------------------------------------------------------------------------
(* C27 *)

\* temp_end and prev_end as rule 4 sets them on a triggered engine, before it
\* tests min_silence_samples
C27_TempEnd == IF vad.temp_end = 0 THEN StepCursor ELSE vad.temp_end
C27_PrevEnd ==
    IF StepCursor - C27_TempEnd > vad.min_silence_samples_at_max_speech
    THEN C27_TempEnd ELSE vad.prev_end

\* rule 4 goes on to close the candidate
C27_Closes ==
    /\ StepCursor - C27_TempEnd >= vad.min_silence_samples
    /\ C27_TempEnd - vad.current_speech.start > vad.min_speech_samples

\* C27: on a rule-4 step (prob < threshold - 0.15, cap not exceeded): a
\* not-triggered engine changes only its cursor (and context); on a triggered
\* engine temp_end is set to current_sample when it was 0 and otherwise kept,
\* and prev_end is set to temp_end exactly when current_sample - temp_end >
\* min_silence_samples_at_max_speech and otherwise kept.  These are the values
\* after the step unless the rule goes on to close the candidate, and then
\* that temp_end is the end of the pushed segment.
C27_SilenceStepMarkers ==
    [][ (StepTaken /\ StepP < vad.threshold - Hysteresis /\ ~StepOverCap) =>
          /\ vad'.current_sample = StepCursor
          /\ ~vad.triggered => Logic(vad') = Logic(vad)
          /\ (vad.triggered /\ ~C27_Closes) =>
                /\ vad'.temp_end = C27_TempEnd
                /\ vad'.prev_end = C27_PrevEnd
          /\ (vad.triggered /\ C27_Closes) =>
                /\ vad'.speeches.size = vad.speeches.size + 1
                /\ Segments(vad')[vad'.speeches.size].end = C27_TempEnd ]_vars

\* a second confident-silence window in a row: temp_end is kept from the
\* first and prev_end takes its value
C27_Witness ==
    /\ last_op = "step"
    /\ rules[Len(rules)] = 4
    /\ vad.triggered
    /\ vad.temp_end # 0
    /\ vad.temp_end < vad.current_sample
    /\ vad.prev_end = vad.temp_end

-----------------------------------------------------------------------------
(* C28 *)

\* the step is a rule-4 step on a triggered engine
C28_SilenceStepWhileTriggered ==
    /\ StepTaken
    /\ StepP < vad.threshold - Hysteresis
    /\ ~StepOverCap
    /\ vad.triggered

\* the largest / smallest element of a non-empty set of numbers
C28_Max(S) == CHOOSE x \in S : \A y \in S : y <= x
C28_Min(S) == CHOOSE x \in S : \A y \in S : x <= y

\* the cursor value of the first confident-silence window (this one included)
\* since the last window with prob >= threshold
C28_FirstSilenceCursor ==
    LET k == Len(probs')
        speech == { i \in 1..k : probs'[i] >= vad.threshold }
        m == IF speech = {} THEN 0 ELSE C28_Max(speech)
        f == C28_Min({ i \in (m + 1)..k : probs'[i] < vad.threshold - Hysteresis })
    IN  f * vad.window_size_samples

\* the cursor value of the first step that ran rule 4 (this one included)
\* since the last step that ran rule 1 or rule 2
C28_FirstRule4Cursor ==
    LET k == Len(rules')
        cleared == { i \in 1..k : rules'[i] \in {1, 2} }
        m == IF cleared = {} THEN 0 ELSE C28_Max(cleared)
        f == C28_Min({ i \in (m + 1)..k : rules'[i] = 4 })
    IN  f * vad.window_size_samples

\* triggered, current_speech and the three markers are cleared
C28_Cleared(v) ==
    /\ ~v.triggered
    /\ v.current_speech = NoSpeech
    /\ v.temp_end = 0
    /\ v.prev_end = 0
    /\ v.next_start = 0

-----------------------------------------------------------------------------
(* C29 *)

\* the step is a rule-4 step that reaches min_silence_samples of silence on a
\* candidate not longer than min_speech_samples
C29_ShortDrop ==
    /\ C28_SilenceStepWhileTriggered
    /\ StepCursor - C27_TempEnd >= vad.min_silence_samples
    /\ C27_TempEnd - vad.current_speech.start <= vad.min_speech_samples

\* the open candidate went through a short drop: rule 4 wrote its end (the
\* temp_end of the drop) and left it open
C29_Dropped(v) == v.triggered /\ v.current_speech.end >= 0

\* the starts of the windows with prob >= threshold that came after the
\* silence of the last short drop
C29_LaterSpeech ==
    { (i - 1) * vad.window_size_samples : i \in
        { i \in 1..Len(probs) :
            /\ probs[i] >= vad.threshold
            /\ (i - 1) * vad.window_size_samples >= vad.current_speech.end } }

\* a step or the flush of the run pushes a segment; the segment
C29_Pushes == pc = "loop" /\ vad'.speeches.size = vad.speeches.size + 1
C29_Pushed == Segments(vad')[vad'.speeches.size]

\* what a short drop leaves behind
C29_DropKeepsCandidate ==
    C29_ShortDrop =>
        /\ vad'.speeches = vad.speeches
        /\ vad'.triggered
        /\ vad'.current_speech.start = vad.current_speech.start
        /\ vad'.temp_end = C27_TempEnd
        /\ vad'.prev_end = C27_PrevEnd

\* C29 (as claimed): a short drop pushes nothing and leaves triggered,
\* current_speech.start, temp_end and prev_end as they are; and when a window
\* with prob >= threshold came after it, the segment pushed next starts at the
\* blip's start and reaches past that window: blip, silence and later speech
\* are one segment.
C29_BlipAlwaysMerges ==
    [][ /\ C29_DropKeepsCandidate
        /\ (C29_Pushes /\ C29_Dropped(vad)) =>
              /\ C29_Pushed.start = vad.current_speech.start
              /\ \A t \in C29_LaterSpeech : C29_Pushed.end > t ]_vars

\* C29 (amended): a short drop pushes nothing and leaves triggered,
\* current_speech.start, temp_end and prev_end as they are; the candidate
\* keeps the blip's start until a segment is pushed, and the segment pushed
\* next starts there.  It reaches past every later speech window, except that
\* the duration-cap rule, when a prev_end is recorded, closes it at prev_end:
\* the speech windows from prev_end on are then not merged but belong to the
\* candidate re-opened at next_start.
C29_BlipMergesUnlessCapSplits ==
    [][ /\ C29_DropKeepsCandidate
        /\ (pc = "loop" /\ C29_Dropped(vad) /\ ~C29_Pushes /\ StepTaken) =>
              /\ C29_Dropped(vad')
              /\ vad'.current_speech.start = vad.current_speech.start
        /\ (C29_Pushes /\ C29_Dropped(vad)) =>
              /\ C29_Pushed.start = vad.current_speech.start
              /\ IF StepTaken /\ rules'[Len(rules')] = 2 /\ vad.prev_end > 0
                 THEN /\ C29_Pushed.end = vad.prev_end
                      /\ \A t \in C29_LaterSpeech :
                            \/ C29_Pushed.end > t
                            \/ /\ vad'.triggered
                               /\ vad'.current_speech.start = vad.next_start
                               /\ vad.next_start <= t
                 ELSE \A t \in C29_LaterSpeech : C29_Pushed.end > t ]_vars

\* [speech, silence, speech, silence] with min_speech_samples of two windows:
\* the blip was dropped at window 2 and one segment from 0 to the end of
\* window 4 was pushed
C29_Witness ==
    /\ last_op = "step"
    /\ Len(probs) = 4
    /\ rules = <<1, 4, 1, 4>>
    /\ 2 * vad.window_size_samples <= vad.min_speech_samples
    /\ vad.min_silence_samples = 0
    /\ Segments(vad) = << [start |-> 0, end |-> vad.current_sample] >>

-----------------------------------------------------------------------------
(* C30 *)

\* C30: between the steps of a run and when it has returned: triggered holds
\* if and only if current_speech.start >= 0; when triggered is false,
\* temp_end = prev_end = next_start = 0 and current_speech = (-1,-1); temp_end
\* is never negative, so the engine is in exactly one of Silence (not
\* triggered), Speech (triggered, temp_end = 0) and Speech-pending-close
\* (triggered, temp_end > 0), and temp_end > 0 implies triggered.
C30_TriggeredIffCandidateOpen ==
    InRun =>
        /\ vad.triggered <=> vad.current_speech.start >= 0
        /\ ~vad.triggered =>
              /\ vad.temp_end = 0
              /\ vad.prev_end = 0
              /\ vad.next_start = 0
              /\ vad.current_speech = NoSpeech
        /\ vad.temp_end >= 0
        /\ vad.temp_end > 0 => vad.triggered

\* the cap rule closed a segment at prev_end and stopped triggering, two
\* windows after markers had been set
C30_Witness ==
    /\ last_op = "step"
    /\ rules[Len(rules)] = 2
    /\ ~vad.triggered
    /\ Segments(vad)[Len(Segments(vad))].end < vad.current_sample

-----------------------------------------------------------------------------
(* C31 *)

\* C31: for every configuration at 16 kHz with window_size_samples > 0, the
\* engine of the monolithic copy and the engine of the library copy, given the
\* same calls and windows, have equal triggered, temp_end, current_sample,
\* prev_end, next_start, current_speech and segment list after every step of
\* a run and when process() has returned; their loops also continue and stop
\* together.
C31_CopiesAgree ==
    (/\ InRun
     /\ init_args[1] = 16000
     /\ vad.window_size_samples > 0
     /\ mono_pc = "live")
    => /\ Logic(mono) = Logic(vad)
       /\ mono.current_sample = vad.current_sample
       /\ pc = "loop" =>
             (mono_LoopContinues(mono, j, audio_length_samples)
                <=> LoopContinues(vad, j, audio_length_samples))

\* both copies have returned from a run at 16 kHz in which the duration cap
\* pushed a segment and a second segment was pushed after it
C31_Witness ==
    /\ ProcessDone
    /\ init_args[1] = 16000
    /\ mono_pc = "live"
    /\ PushedBy("max_speech")
    /\ Len(Segments(mono)) >= 2
    /\ Segments(mono) = Segments(vad)

-----------------------------------------------------------------------------
(* C32 *)

\* the configurations of C32: max_speech_samples >= min_speech_samples
C32_CapAboveMinSpeech ==
    vad.max_speech_samples.inf \/ vad.max_speech_samples.val >= vad.min_speech_samples

C32_Length(seg) == seg.end - seg.start

\* C32 (as claimed): with max_speech_samples >= min_speech_samples, every
\* segment of the list that a step pushed (every segment other than the one
\* pushed by the end-of-stream flush) is longer than min_speech_samples.
C32_SteppingSegmentsLongEnough ==
    (InRun /\ C32_CapAboveMinSpeech) =>
        \A i \in 1..Len(origin) :
            origin[i] # "flush" => C32_Length(Segments(vad)[i]) > vad.min_speech_samples

\* C32 (amended): a segment pushed by the confident-silence rule is longer
\* than min_speech_samples; a segment the duration-cap rule closes at the
\* cursor (prev_end = 0) is longer than max_speech_samples; a segment the
\* duration-cap rule closes at prev_end is (start, prev_end) with start <
\* prev_end, whatever min_speech_samples is.
C32_OnlySilenceCloseIsFiltered ==
    [][ (StepTaken /\ Len(Segments(vad')) > Len(Segments(vad))) =>
          LET seg == Segments(vad')[Len(Segments(vad'))]
              rule == rules'[Len(rules')]
          IN  /\ rule \in {2, 4}
              /\ rule = 4 => C32_Length(seg) > vad.min_speech_samples
              /\ (rule = 2 /\ vad.prev_end = 0) =>
                    GreaterThanFloat(C32_Length(seg), vad.max_speech_samples)
              /\ (rule = 2 /\ vad.prev_end > 0) =>
                    /\ seg = [start |-> vad.current_speech.start, end |-> vad.prev_end]
                    /\ seg.start < seg.end ]_vars

\* with max_speech_samples >= min_speech_samples, the duration-cap rule has
\* just pushed a segment that is not longer than min_speech_samples
C32_Witness ==
    /\ last_op = "step"
    /\ C32_CapAboveMinSpeech
    /\ rules[Len(rules)] = 2
    /\ C32_Length(Segments(vad)[Len(Segments(vad))]) <= vad.min_speech_samples

-----------------------------------------------------------------------------
(* C33 *)

\* C33: a call of process() with a null sample buffer, or on an engine with
\* window_size_samples = 0, returns with the whole engine as it was: cursor,
\* markers, candidate, context, recurrent state, segment list (and every
\* configuration field) are those of before the call; nothing is reset.
C33_EntryReturnChangesNothing ==
    [][ last_op' = "skip" =>
          /\ input_wav_null' \/ vad.window_size_samples = 0
          /\ pc' = "returned"
          /\ vad' = vad ]_vars

\* process() returned from a call with a null buffer, and the engine still
\* holds the cursor, the context, the recurrent state and the segments of an
\* earlier run
C33_Witness ==
    /\ last_op = "skip"
    /\ input_wav_null
    /\ vad.current_sample > 0
    /\ vad.context # Zeros(vad.context_samples)
    /\ vad.state # Zeros(vad.size_state)
    /\ Segments(vad) # <<>>

-----------------------------------------------------------------------------
(* C34 *)

\* the headers of C34 that the reader cannot decode, for a file that opens
\* and has a whole 44-byte header and fmt chunk: zero channels, a
\* bits-per-sample value other than 8, 16 and 32, a 32-bit format other than
\* 1 and 3, no data chunk, fewer sample bytes than the data chunk announces
C34_DataChunk(file) == WavFindData(file, 1, 20 + file.fmt_size)

C34_Undecodable(file) ==
    \/ file.channels = 0
    \/ file.bit \notin {8, 16, 32}
    \/ file.bit = 32 /\ file.format \notin {1, 3}
    \/ ~C34_DataChunk(file).found
    \/ file.len - C34_DataChunk(file).pos < C34_DataChunk(file).size

\* C34 (as claimed): after wav_reader_open on such a file the call has
\* returned false, reader->data is null, reader->loaded is false and the file
\* is closed; and when it has returned true, all announced samples were read.
C34_UndecodableRejected ==
    wav.at # "start" =>
        /\ (wav.file.present /\ C34_Undecodable(wav.file)) =>
              /\ wav.ret = "false"
              /\ wav.reader.data.null
              /\ ~wav.reader.loaded
              /\ wav.fp = "closed"
        /\ wav.ret = "true" => wav.samples_read = wav.num_data

\* the part of C34 that holds: the same for every file whose bits-per-sample
\* value is at least 8 (bits_per_sample / 8 is not zero)
C34_RejectedWhenDivisorNonZero ==
    (wav.at # "start" /\ wav.file.bit \div 8 # 0) =>
        /\ (wav.file.present /\ C34_Undecodable(wav.file)) =>
              /\ wav.ret = "false"
              /\ wav.reader.data.null
              /\ ~wav.reader.loaded
              /\ wav.fp = "closed"
        /\ wav.ret = "true" => wav.samples_read = wav.num_data

====
